---------------------------- MODULE Spec2Model ----------------------------
(***************************************************************************)
(* A model of the concurrent extraction / scoring core of resume-ai        *)
(* (src/core/analyzer.py, class ResumeAnalyzer):                           *)
(*   - the score recoverer (_extract_score_from_response and the two       *)
(*     explain_match_score bodies),                                        *)
(*   - the bounded result cache (_cache_get / _cache_set) and the          *)
(*     structured extractors that consult and populate it,                 *)
(*   - the tier ladder of extract_data_concurrent,                         *)
(*   - the end-to-end analysis (analyze_resume_job_match_fast) and the     *)
(*     batch runner (analyze_multiple_resumes).                            *)
(*                                                                         *)
(* Five specifications share the module:                                   *)
(*   SpecScore    the scoring call and the recovery of the score,          *)
(*   Spec         sequential Extract calls against the cache,              *)
(*   SpecCoord    ExtractBoth: the three tiers and their workers,          *)
(*   SpecAnalyze  Analyze: the cooperative path and the fallback path,     *)
(*   SpecBatch    AnalyzeMany over a list of pairs.                        *)
(***************************************************************************)
EXTENDS Integers, Sequences, FiniteSets, TLC

VARIABLES
    content,      \* text of the last scoring response ("content" in explain_match_score_*)
    scoreResult,  \* the dict the last explain_match_score_* call returned
    scorePath,    \* which body produced it: "none", "async" or "sync"
    scoreCall,    \* the scoring generation call: "none", "answered" or "failed"
    scorePc,      \* "idle", or "returned" while the caller holds the result
    cache,        \* self._cache: the entries of the dict, in insertion order
    evicted,      \* the key the latest _cache_set deleted (None if it deleted none)
    last,         \* the latest completed Extract call: its input, calls issued, result
    callSeq,      \* flips with every completed Extract call
    coordPc,      \* extract_data_concurrent: "idle", "tier1", "tier2", "tier3", "returned"
    input,        \* its arguments: [resume |-> text, job |-> text]
    loopRunning,  \* whether the calling thread already runs an event loop
    workers,      \* the two extractions of the running tier, by kind
    coordResult,  \* the dict extract_data_concurrent returns
    tiersTried,   \* the tiers this call has started, in order
    apiLog,       \* how the generation calls of this call ended so far
    putRaised,    \* whether a _cache_set of this call raised
    anPc,         \* analyze_resume_job_match_fast: "idle", "extracting", "scoring",
                  \* "score_hung", "returned"
    anPath,       \* the path it runs: "none", "coop" (asyncio.run) or "sync" (fallback)
    anInput,      \* its arguments: [resume |-> text, job |-> text]
    anRecords,    \* the records ExtractBoth gave it: [resume |-> ..., job |-> ...]
    anResult,     \* the dict it returns (None until it returns)
    prev,         \* the previous completed Analyze call: its arguments and result
    batchPc,      \* analyze_multiple_resumes: "idle", "coop", "threads", "returned", "raised"
    batch,        \* its argument: the list of pairs
    pairs,        \* the analysis of each pair: its position and what it holds
    results,      \* the list it returns
    origin        \* for each returned result, the index of the pair it was computed for

scoreVars == <<content, scoreResult, scorePath, scoreCall, scorePc>>

cacheVars == <<cache, evicted>>

extractVars == <<last, callSeq>>

coordVars == <<coordPc, input, loopRunning, workers, coordResult, tiersTried,
               apiLog, putRaised>>

analyzeVars == <<anPc, anPath, anInput, anRecords, anResult, prev>>

batchVars == <<batchPc, batch, pairs, results, origin>>

\* The layers above the coordinator.
upperVars == <<analyzeVars, batchVars>>

vars == <<scoreVars, cacheVars, extractVars, coordVars, upperVars>>

(***************************************************************************)
(* Optional values: Python's None is <<>>, a value v is <<v>>.             *)
(***************************************************************************)
None == <<>>

Some(v) == <<v>>

MinOf(S) == CHOOSE x \in S : \A y \in S : x <= y

MaxOf(S) == CHOOSE x \in S : \A y \in S : x >= y

(***************************************************************************)
(* SCORE TEXT.  A response text is a sequence of lines; each line has one  *)
(* of the shapes below (k) and carries at most one number of interest (n). *)
(* The shapes are the ones the regular expressions of                      *)
(* _extract_score_from_response tell apart:                                *)
(*   eq         "Subtotal = n/100"                                         *)
(*   eqsp       "Subtotal = n / 100"                                       *)
(*   marker     "**FINAL COMPATIBILITY SCORE: n/100**"                     *)
(*   markereq   "**FINAL COMPATIBILITY SCORE: 100 - 21 = n/100**"          *)
(*   markereqn  "**FINAL COMPATIBILITY SCORE: 100 - 21 = n**"              *)
(*   short      "**FINAL SCORE: n/100**"                                   *)
(*   bare       "Overall match n/100"                                      *)
(*   scorelbl   "Score: n"                                                 *)
(*   calc       "**CALCULATION:**"                                         *)
(*   skills     "Skills Deductions: -n"                                    *)
(*   experience "Experience Deductions: -n"                                *)
(*   education  "Education Deductions: -n"                                 *)
(*   bonus      "Bonus Points: +n"                                         *)
(*   plain      "Base 100, Skills -14, Experience -10, Education 0"        *)
(***************************************************************************)
MaxLines == 3

Line(k, n) == [k |-> k, n |-> n]

Lines ==
    {Line("eq", 60), Line("eqsp", 60),
     Line("marker", 7), Line("marker", 79), Line("marker", 120),
     Line("markereq", 79), Line("markereqn", 79),
     Line("short", 79),
     Line("bare", 40), Line("bare", 60),
     Line("scorelbl", 30),
     Line("calc", 0),
     Line("skills", 14), Line("experience", 10), Line("experience", 90),
     Line("education", 5), Line("bonus", 3),
     Line("plain", 0)}

Texts == UNION {[1..len -> Lines] : len \in 0..MaxLines}

(***************************************************************************)
(* PatMatch(p, l): what pattern p of _extract_score_from_response captures *)
(* on line l (group 1 of its first match there), or None.                  *)
(*   calc1     =\s*(\d+)/100                                               *)
(*   calc2     =\s*(\d+)\s*/\s*100                                         *)
(*   calc3     FINAL COMPATIBILITY SCORE:.*?=\s*(\d+)/100                  *)
(*   calc4     FINAL COMPATIBILITY SCORE:.*?=\s*(\d+)                      *)
(*   simple1   FINAL COMPATIBILITY SCORE:\s*(\d+)/100                      *)
(*   simple2   \*\*FINAL COMPATIBILITY SCORE:\s*(\d+)/100\*\*              *)
(*   simple3   FINAL COMPATIBILITY SCORE:\s*(\d+)                          *)
(*   fallback1 (\d+)/100                                                   *)
(*   fallback2 Final score:\s*(\d+)                                        *)
(*   fallback3 Score:\s*(\d+)                                              *)
(* All are searched with re.IGNORECASE; "." does not cross a line break.   *)
(* On a markereq / markereqn line the digits right after the colon are the *)
(* base value 100 of the equation.                                         *)
(***************************************************************************)
PatMatch(p, l) ==
    CASE p = "calc1"     -> IF l.k \in {"eq", "markereq"} THEN Some(l.n) ELSE None
      [] p = "calc2"     -> IF l.k \in {"eq", "eqsp", "markereq"} THEN Some(l.n) ELSE None
      [] p = "calc3"     -> IF l.k = "markereq" THEN Some(l.n) ELSE None
      [] p = "calc4"     -> IF l.k \in {"markereq", "markereqn"} THEN Some(l.n) ELSE None
      [] p = "simple1"   -> IF l.k = "marker" THEN Some(l.n) ELSE None
      [] p = "simple2"   -> IF l.k = "marker" THEN Some(l.n) ELSE None
      [] p = "simple3"   -> IF l.k = "marker" THEN Some(l.n)
                            ELSE IF l.k \in {"markereq", "markereqn"} THEN Some(100)
                            ELSE None
      [] p = "fallback1" -> IF l.k \in {"eq", "marker", "markereq", "short", "bare"}
                            THEN Some(l.n) ELSE None
      [] p = "fallback2" -> IF l.k = "short" THEN Some(l.n) ELSE None
      [] p = "fallback3" -> IF l.k \in {"marker", "short", "scorelbl"} THEN Some(l.n)
                            ELSE IF l.k \in {"markereq", "markereqn"} THEN Some(100)
                            ELSE None
      [] OTHER           -> None

calc_patterns == <<"calc1", "calc2", "calc3", "calc4">>

simple_patterns == <<"simple1", "simple2", "simple3">>

fallback_patterns == <<"fallback1", "fallback2", "fallback3">>

MatchingLines(p, text) == {i \in 1..Len(text) : PatMatch(p, text[i]) # None}

\* re.search(p, content): the first match in the text.
ReSearch(p, text) ==
    IF MatchingLines(p, text) = {} THEN None
    ELSE PatMatch(p, text[MinOf(MatchingLines(p, text))])

\* A findall whose first match is taken instead of the last.
ReFindallLast_First(p, text) ==
    IF MatchingLines(p, text) = {} THEN None
    ELSE PatMatch(p, text[MinOf(MatchingLines(p, text))])

\* re.findall(p, content)[-1]: the last match in the text.
ReFindallLast(p, text) ==
    IF MatchingLines(p, text) = {} THEN None
    ELSE PatMatch(p, text[MaxOf(MatchingLines(p, text))])

\* "for i, pattern in enumerate(patterns): match = re.search(...); if match: return"
RECURSIVE FirstSearch(_, _)
FirstSearch(pats, text) ==
    IF pats = <<>> THEN None
    ELSE IF ReSearch(Head(pats), text) # None THEN ReSearch(Head(pats), text)
    ELSE FirstSearch(Tail(pats), text)

\* "for i, pattern in enumerate(fallback_patterns): matches = re.findall(...)"
RECURSIVE FirstFindallLast(_, _)
FirstFindallLast(pats, text) ==
    IF pats = <<>> THEN None
    ELSE IF ReFindallLast(Head(pats), text) # None THEN ReFindallLast(Head(pats), text)
    ELSE FirstFindallLast(Tail(pats), text)

(***************************************************************************)
(* _extract_from_calculation_section: the section runs from the first      *)
(* "**CALCULATION:**" to the next "**FINAL" (or the end of the text); the  *)
(* first match of each deduction label and of the bonus label is taken; a  *)
(* label that does not match contributes 0.                                *)
(***************************************************************************)
StartsBoldFinal(l) == l.k \in {"marker", "markereq", "markereqn", "short"}

CalcHeaders(text) == {i \in 1..Len(text) : text[i].k = "calc"}

CalcSectionEnd(text, c) ==
    IF {i \in (c + 1)..Len(text) : StartsBoldFinal(text[i])} = {} THEN Len(text)
    ELSE MinOf({i \in (c + 1)..Len(text) : StartsBoldFinal(text[i])}) - 1

CalcSection(text) ==
    LET c == MinOf(CalcHeaders(text))
    IN  SubSeq(text, c + 1, CalcSectionEnd(text, c))

LabelValue(label, section) ==
    IF {i \in 1..Len(section) : section[i].k = label} = {} THEN 0
    ELSE section[MinOf({i \in 1..Len(section) : section[i].k = label})].n

base_score == 100

ExtractFromCalculationSection(text) ==
    IF CalcHeaders(text) = {} THEN None
    ELSE LET calc_section    == CalcSection(text)
             total_deductions == LabelValue("skills", calc_section)
                                 + LabelValue("experience", calc_section)
                                 + LabelValue("education", calc_section)
             total_bonuses    == LabelValue("bonus", calc_section)
         IN  Some(base_score - total_deductions + total_bonuses)

default_score == 50

\* A recovery whose last resort is 0 instead of the neutral default.
ExtractScoreFromResponse_ZeroDefault(text) ==
    IF FirstSearch(calc_patterns, text) # None
    THEN FirstSearch(calc_patterns, text)[1]
    ELSE IF FirstSearch(simple_patterns, text) # None
    THEN FirstSearch(simple_patterns, text)[1]
    ELSE IF ExtractFromCalculationSection(text) # None
    THEN ExtractFromCalculationSection(text)[1]
    ELSE IF FirstFindallLast(fallback_patterns, text) # None
    THEN FirstFindallLast(fallback_patterns, text)[1]
    ELSE 0

\* A recovery that tries the bare "N/100" patterns before the calculation
\* section.
ExtractScoreFromResponse_FallbackFirst(text) ==
    IF FirstSearch(calc_patterns, text) # None
    THEN FirstSearch(calc_patterns, text)[1]
    ELSE IF FirstSearch(simple_patterns, text) # None
    THEN FirstSearch(simple_patterns, text)[1]
    ELSE IF FirstFindallLast(fallback_patterns, text) # None
    THEN FirstFindallLast(fallback_patterns, text)[1]
    ELSE IF ExtractFromCalculationSection(text) # None
    THEN ExtractFromCalculationSection(text)[1]
    ELSE default_score

\* _extract_score_from_response: methods 1 to 4 in order, then the default.
ExtractScoreFromResponse(text) ==
    IF FirstSearch(calc_patterns, text) # None
    THEN FirstSearch(calc_patterns, text)[1]
    ELSE IF FirstSearch(simple_patterns, text) # None
    THEN FirstSearch(simple_patterns, text)[1]
    ELSE IF ExtractFromCalculationSection(text) # None
    THEN ExtractFromCalculationSection(text)[1]
    ELSE IF FirstFindallLast(fallback_patterns, text) # None
    THEN FirstFindallLast(fallback_patterns, text)[1]
    ELSE default_score

\* Which method of _extract_score_from_response produced the value (1..5).
MethodUsed(text) ==
    IF FirstSearch(calc_patterns, text) # None THEN 1
    ELSE IF FirstSearch(simple_patterns, text) # None THEN 2
    ELSE IF ExtractFromCalculationSection(text) # None THEN 3
    ELSE IF FirstFindallLast(fallback_patterns, text) # None THEN 4
    ELSE 5

score_floor == 15

score_ceiling == 95

Min2(a, b) == IF a <= b THEN a ELSE b

Max2(a, b) == IF a >= b THEN a ELSE b

\* A clamp that lost its lower bound.
ClampScore_NoFloor(s) == Min2(score_ceiling, s)

\* "final_score = max(15, min(95, final_score))"
ClampScore(s) == Max2(score_floor, Min2(score_ceiling, s))

failure_score == 0

\* A result that keeps the score and drops the response text.
ScoreOk_NoExplanation(text) ==
    [explanation |-> <<>>,
     score       |-> ClampScore(ExtractScoreFromResponse(text)),
     error       |-> FALSE]

\* The dict explain_match_score_* returns when the call completed.
ScoreOk(text) ==
    [explanation |-> text,
     score       |-> ClampScore(ExtractScoreFromResponse(text)),
     error       |-> FALSE]

\* An except branch that forgot the "error" key.
ScoreFailed_NoMarker ==
    [explanation |-> <<>>,
     score       |-> failure_score,
     error       |-> FALSE]

\* The dict of the "except Exception" branch: the call itself failed.
ScoreFailed ==
    [explanation |-> <<>>,
     score       |-> failure_score,
     error       |-> TRUE]

NoScore == [explanation |-> <<>>, score |-> failure_score, error |-> FALSE]

InitScoreVars ==
    /\ content = <<>>
    /\ scoreResult = NoScore
    /\ scorePath = "none"
    /\ scoreCall = "none"
    /\ scorePc = "idle"

\* The body shared by explain_match_score_async and _explain_match_score_sync:
\* one generation call; either it answers with a text, whose score is
\* recovered and clamped, or it raises and the except branch answers.
\* "texts" are the response texts the generation call may answer with.
ScoreCall(path, texts) ==
    /\ scorePc = "idle"
    /\ scorePc' = "returned"
    /\ scorePath' = path
    /\ \/ \E text \in texts :
             /\ scoreCall' = "answered"
             /\ content' = text
             /\ scoreResult' = ScoreOk(text)
       \/ /\ scoreCall' = "failed"
          /\ content' = <<>>
          /\ scoreResult' = ScoreFailed

ExplainMatchScoreBody(path) ==
    /\ ScoreCall(path, Texts)
    /\ UNCHANGED <<cacheVars, extractVars, coordVars, upperVars>>

\* explain_match_score_async (the body explain_match_score runs first).
ExplainMatchScoreAsync == ExplainMatchScoreBody("async")

\* _explain_match_score_sync: the blocking twin, reached from
\* explain_match_score when asyncio.run raises.
ExplainMatchScoreSync == ExplainMatchScoreBody("sync")

\* The caller takes the returned dict; the analyzer keeps nothing of the call.
ScoreTaken ==
    /\ scorePc = "returned"
    /\ content' = <<>>
    /\ scoreResult' = NoScore
    /\ scorePath' = "none"
    /\ scoreCall' = "none"
    /\ scorePc' = "idle"

ScoreReturn ==
    /\ ScoreTaken
    /\ UNCHANGED <<cacheVars, extractVars, coordVars, upperVars>>

NextScore == ExplainMatchScoreAsync \/ ExplainMatchScoreSync \/ ScoreReturn

(***************************************************************************)
(* EXTRACTION INPUTS AND ANSWERS.  A text is identified by a small number; *)
(* _get_cache_key is str(hash(text)), so equal texts give equal keys, and  *)
(* the model identifies a text with its hash value.  The key of an entry   *)
(* is the kind prefix ("resume_" / "job_") with that hash.                 *)
(***************************************************************************)
NumTexts == 2

NumVersions == 1

ExtractTexts == 1..NumTexts

Kinds == {"resume", "job"}

GetCacheKey(text) == text

CacheKey(kind, text) == <<kind, GetCacheKey(text)>>

(***************************************************************************)
(* What json.loads can return for an answer about text t: a record (the    *)
(* service may word it differently from call to call: ver), or the empty   *)
(* object {}, which is valid JSON and false in a Python condition.         *)
(***************************************************************************)
ParsedJson(kind, text) ==
    {[kind |-> kind, text |-> text, ver |-> v, empty |-> FALSE] : v \in 1..NumVersions}
    \cup {[kind |-> kind, text |-> text, ver |-> 0, empty |-> TRUE]}

\* One generation call ends in: an exception of the client ("fail"), a text
\* json.loads rejects ("malformed"), or a text json.loads accepts ("json").
ApiOutcomes(kind, text) ==
    {[o |-> "fail", val |-> None], [o |-> "malformed", val |-> None]}
    \cup {[o |-> "json", val |-> Some(v)] : v \in ParsedJson(kind, text)}

(***************************************************************************)
(* THE CACHE: a Python dict, which iterates in insertion order.            *)
(***************************************************************************)
CacheSizeLimit == 2

CacheKeys(c) == {c[i].key : i \in 1..Len(c)}

CacheIndex(c, key) == CHOOSE i \in 1..Len(c) : c[i].key = key

\* _cache_get: self._cache.get(key)
CacheGet(c, key) ==
    IF key \in CacheKeys(c) THEN Some(c[CacheIndex(c, key)].val) ELSE None

\* "if cached_result:" - None and an empty dict are both false.
Truthy(opt) == opt # None /\ ~opt[1].empty

\* "self._cache[key] = value": a present key keeps its place in the order.
DictStore(c, key, value) ==
    IF key \in CacheKeys(c)
    THEN [c EXCEPT ![CacheIndex(c, key)] = [key |-> key, val |-> value]]
    ELSE Append(c, [key |-> key, val |-> value])

\* "oldest_key = next(iter(self._cache))"
OldestKey(c) == c[1].key

\* "del self._cache[oldest_key]" (the key is present)
DictDelete(c, key) ==
    SubSeq(c, 1, CacheIndex(c, key) - 1) \o SubSeq(c, CacheIndex(c, key) + 1, Len(c))

\* An eviction test that lets the dict grow one entry too far.
NeedsEviction_OffByOne(c) == Len(c) > CacheSizeLimit

\* "if len(self._cache) >= self._cache_size_limit:"
NeedsEviction(c) == Len(c) >= CacheSizeLimit

\* _cache_set run without interruption.
CacheSet(c, key, value) ==
    IF NeedsEviction(c)
    THEN DictStore(DictDelete(c, OldestKey(c)), key, value)
    ELSE DictStore(c, key, value)

\* The key a _cache_set on c deletes, if any.
EvictedBy(c) == IF NeedsEviction(c) THEN Some(OldestKey(c)) ELSE None

InitCacheVars ==
    /\ cache = <<>>
    /\ evicted = None

(***************************************************************************)
(* What an Extract call returns: the parsed value, or one of the two error *)
(* dicts {"error": "Failed to parse ..."} / {"error": "API call failed"}.  *)
(***************************************************************************)
ExtractOk(v) == [tag |-> "ok", val |-> Some(v)]

ParseError == [tag |-> "parse_error", val |-> None]

ApiError == [tag |-> "api_error", val |-> None]

NoCall == [kind |-> "none", text |-> 0, issued |-> 0, result |-> [tag |-> "none", val |-> None]]

InitExtractVars ==
    /\ last = NoCall
    /\ callSeq = 0

\* The result of the try block for one outcome of the generation call.
ResultOf(outcome) ==
    CASE outcome.o = "json"      -> ExtractOk(outcome.val[1])
      [] outcome.o = "malformed" -> ParseError
      [] OTHER                   -> ApiError

\* An Extract call that also stores something when json.loads rejected the
\* response.
ExtractBody_CachesFailures(kind, text) ==
    /\ callSeq' = 1 - callSeq
    /\ UNCHANGED <<scoreVars, upperVars, coordVars>>
    /\ IF Truthy(CacheGet(cache, CacheKey(kind, text)))
       THEN /\ last' = [kind |-> kind, text |-> text, issued |-> 0,
                        result |-> ExtractOk(CacheGet(cache, CacheKey(kind, text))[1])]
            /\ UNCHANGED cacheVars
       ELSE \E outcome \in ApiOutcomes(kind, text) :
            /\ last' = [kind |-> kind, text |-> text, issued |-> 1,
                        result |-> ResultOf(outcome)]
            /\ IF outcome.o = "json"
               THEN /\ cache' = CacheSet(cache, CacheKey(kind, text), outcome.val[1])
                    /\ evicted' = EvictedBy(cache)
               ELSE IF outcome.o = "malformed"
               THEN /\ cache' = CacheSet(cache, CacheKey(kind, text),
                                         [kind |-> kind, text |-> text,
                                          ver |-> 0, empty |-> TRUE])
                    /\ evicted' = EvictedBy(cache)
               ELSE UNCHANGED cacheVars

(***************************************************************************)
(* One Extract call run on its own (extract_resume_data_async and its      *)
(* three twins share this body): cache check; on a miss one generation     *)
(* call, json.loads, _cache_set on success, and the error dicts otherwise. *)
(***************************************************************************)
ExtractBody(kind, text) ==
    /\ callSeq' = 1 - callSeq
    /\ UNCHANGED <<scoreVars, upperVars, coordVars>>
    /\ IF Truthy(CacheGet(cache, CacheKey(kind, text)))
       THEN /\ last' = [kind |-> kind, text |-> text, issued |-> 0,
                        result |-> ExtractOk(CacheGet(cache, CacheKey(kind, text))[1])]
            /\ UNCHANGED cacheVars
       ELSE \E outcome \in ApiOutcomes(kind, text) :
            /\ last' = [kind |-> kind, text |-> text, issued |-> 1,
                        result |-> ResultOf(outcome)]
            /\ IF outcome.o = "json"
               THEN /\ cache' = CacheSet(cache, CacheKey(kind, text), outcome.val[1])
                    /\ evicted' = EvictedBy(cache)
               ELSE UNCHANGED cacheVars

\* extract_resume_data
ExtractResumeData == \E text \in ExtractTexts : ExtractBody("resume", text)

\* extract_job_requirements
ExtractJobRequirements == \E text \in ExtractTexts : ExtractBody("job", text)

(***************************************************************************)
(* EXTRACTBOTH: extract_data_concurrent and its three tiers.               *)
(*   tier 1  one event loop runs both coroutines (asyncio.gather) under    *)
(*           asyncio.wait_for(..., timeout=25);                            *)
(*   tier 2  each coroutine runs in a thread of its own, joined with       *)
(*           thread.join(timeout=15);                                      *)
(*   tier 3  _extract_data_concurrent_sync: two pool threads run the       *)
(*           blocking extractors; future.result() has no timeout.          *)
(* Real time is not modelled: a generation call either ends (answer or     *)
(* exception) or is "hung", i.e. still unanswered when the tier's timeout  *)
(* expires; an abandoned call takes no further step.                       *)
(***************************************************************************)
IdleWorker == [pc |-> "init", val |-> None, oldest |-> None, result |-> None]

FreshWorkers == [k \in Kinds |-> IdleWorker]

NoInput == [resume |-> 0, job |-> 0]

NoResult == [tag |-> "none", resume |-> None, job |-> None, details |-> "none"]

InitCoordVars ==
    /\ coordPc = "idle"
    /\ input = NoInput
    /\ loopRunning = FALSE
    /\ workers = FreshWorkers
    /\ coordResult = NoResult
    /\ tiersTried = <<>>
    /\ apiLog = {}
    /\ putRaised = FALSE

\* "coop" is extract_data_concurrent_async awaited directly by
\* analyze_resume_job_match_fast_async, outside any asyncio.wait_for.
Running == coordPc \in {"coop", "tier1", "tier2", "tier3"}

\* Both extractions are coroutines of one event loop.
Cooperative == coordPc \in {"coop", "tier1"}

\* Tiers 2 and 3 run the two extractions on separate threads.
Threaded == coordPc \in {"tier2", "tier3"}

WorkerKey(k) == CacheKey(k, input[k])

Done(k, res) == [pc |-> "done", val |-> None, oldest |-> None, result |-> Some(res)]

\* extract_data_concurrent is entered with texts tr and tj, on a thread
\* that runs an event loop already (lr) or does not; tier 1 is set up.
EnterExtractBoth(tr, tj, lr) ==
    /\ coordPc = "idle"
    /\ input' = [resume |-> tr, job |-> tj]
    /\ loopRunning' = lr
    /\ coordPc' = "tier1"
    /\ tiersTried' = <<1>>
    /\ workers' = FreshWorkers
    /\ coordResult' = NoResult
    /\ apiLog' = {}
    /\ putRaised' = FALSE
    /\ UNCHANGED <<cacheVars, extractVars>>

\* extract_data_concurrent called on its own.
StartExtractBoth ==
    /\ \E tr \in ExtractTexts, tj \in ExtractTexts, lr \in BOOLEAN :
          EnterExtractBoth(tr, tj, lr)
    /\ UNCHANGED <<scoreVars, upperVars>>

\* The start of an extraction up to its generation call: the cache check,
\* and on a miss the call is issued.  Under tier 1 the event loop starts the
\* resume coroutine first, and both before any answer is handled.
WorkerStart(k) ==
    /\ Running
    /\ Cooperative => (~loopRunning /\ (k = "job" => workers["resume"].pc # "init"))
    /\ workers[k].pc = "init"
    /\ workers' = [workers EXCEPT ![k] =
          IF Truthy(CacheGet(cache, WorkerKey(k)))
          THEN Done(k, ExtractOk(CacheGet(cache, WorkerKey(k))[1]))
          ELSE [@ EXCEPT !.pc = "calling"]]
    /\ UNCHANGED <<scoreVars, upperVars, cacheVars, extractVars, coordPc, input, loopRunning,
                   coordResult, tiersTried, apiLog, putRaised>>

\* The generation call ends and the extraction runs on to its next access
\* to the shared dict: an exception or unparseable text ends it with an
\* error dict; parsed JSON enters _cache_set.  On the event loop of tier 1
\* _cache_set runs to its end; on a thread only its length test does.
WorkerAnswer(k) ==
    /\ Running
    /\ workers[k].pc = "calling"
    /\ Cooperative => \A j \in Kinds : workers[j].pc # "init"
    /\ \E outcome \in ApiOutcomes(k, input[k]) :
          /\ apiLog' = apiLog \cup {outcome.o}
          /\ IF outcome.o # "json"
             THEN /\ workers' = [workers EXCEPT ![k] = Done(k, ResultOf(outcome))]
                  /\ UNCHANGED cacheVars
             ELSE IF Cooperative
             THEN /\ cache' = CacheSet(cache, WorkerKey(k), outcome.val[1])
                  /\ evicted' = EvictedBy(cache)
                  /\ workers' = [workers EXCEPT ![k] = Done(k, ResultOf(outcome))]
             ELSE /\ workers' = [workers EXCEPT ![k] =
                        [@ EXCEPT !.pc = IF NeedsEviction(cache) THEN "pick" ELSE "store",
                                  !.val = outcome.val]]
                  /\ UNCHANGED cacheVars
    /\ UNCHANGED <<scoreVars, upperVars, extractVars, coordPc, input, loopRunning, coordResult,
                   tiersTried, putRaised>>

\* The generation call is not answered in time.
WorkerHang(k) ==
    /\ Running
    /\ workers[k].pc = "calling"
    /\ Cooperative => \A j \in Kinds : workers[j].pc # "init"
    /\ workers' = [workers EXCEPT ![k] = [@ EXCEPT !.pc = "hung"]]
    /\ apiLog' = apiLog \cup {"hung"}
    /\ UNCHANGED <<scoreVars, upperVars, cacheVars, extractVars, coordPc, input, loopRunning,
                   coordResult, tiersTried, putRaised>>

\* _cache_set on a thread, "oldest_key = next(iter(self._cache))": on a dict
\* another thread has emptied meanwhile next() raises, and the extractor's
\* "except Exception" answers with the "API call failed" dict.
WorkerPick(k) ==
    /\ Threaded
    /\ workers[k].pc = "pick"
    /\ IF cache = <<>>
       THEN /\ workers' = [workers EXCEPT ![k] = Done(k, ApiError)]
            /\ putRaised' = TRUE
       ELSE /\ workers' = [workers EXCEPT ![k] =
                  [@ EXCEPT !.pc = "del", !.oldest = Some(OldestKey(cache))]]
            /\ UNCHANGED putRaised
    /\ UNCHANGED <<scoreVars, upperVars, cacheVars, extractVars, coordPc, input, loopRunning,
                   coordResult, tiersTried, apiLog>>

\* _cache_set on a thread, "del self._cache[oldest_key]": a key another
\* thread has deleted meanwhile raises KeyError, caught as above.
WorkerDel(k) ==
    /\ Threaded
    /\ workers[k].pc = "del"
    /\ IF workers[k].oldest[1] \in CacheKeys(cache)
       THEN /\ cache' = DictDelete(cache, workers[k].oldest[1])
            /\ evicted' = workers[k].oldest
            /\ workers' = [workers EXCEPT ![k] = [@ EXCEPT !.pc = "store"]]
            /\ UNCHANGED putRaised
       ELSE /\ workers' = [workers EXCEPT ![k] = Done(k, ApiError)]
            /\ putRaised' = TRUE
            /\ UNCHANGED cacheVars
    /\ UNCHANGED <<scoreVars, upperVars, extractVars, coordPc, input, loopRunning, coordResult,
                   tiersTried, apiLog>>

\* _cache_set on a thread, "self._cache[key] = value", and the return.
WorkerStore(k) ==
    /\ Threaded
    /\ workers[k].pc = "store"
    /\ cache' = DictStore(cache, WorkerKey(k), workers[k].val[1])
    /\ UNCHANGED evicted
    /\ workers' = [workers EXCEPT ![k] = Done(k, ExtractOk(workers[k].val[1]))]
    /\ UNCHANGED <<scoreVars, upperVars, extractVars, coordPc, input, loopRunning, coordResult,
                   tiersTried, apiLog, putRaised>>

\* "if 'error' in resume_data: ... if 'error' in job_requirements: ..."
\* A check that looks at the resume extraction only.
CombineResults_ResumeOnly(r, j) ==
    IF r.tag # "ok"
    THEN [tag |-> "resume_failed", resume |-> None, job |-> None, details |-> r.tag]
    ELSE [tag |-> "ok", resume |-> r.val, job |-> j.val, details |-> "none"]

\* A check that looks at the job extraction only.
CombineResults_JobOnly(r, j) ==
    IF j.tag # "ok"
    THEN [tag |-> "job_failed", resume |-> None, job |-> None, details |-> j.tag]
    ELSE [tag |-> "ok", resume |-> r.val, job |-> j.val, details |-> "none"]

\* "details" is the error dict of the extraction named by the error.
CombineResults(r, j) ==
    IF r.tag # "ok"
    THEN [tag |-> "resume_failed", resume |-> None, job |-> None, details |-> r.tag]
    ELSE IF j.tag # "ok"
    THEN [tag |-> "job_failed", resume |-> None, job |-> None, details |-> j.tag]
    ELSE [tag |-> "ok", resume |-> r.val, job |-> j.val, details |-> "none"]

BothDone == \A k \in Kinds : workers[k].pc = "done"

ReturnResult ==
    /\ coordResult' = CombineResults(workers["resume"].result[1], workers["job"].result[1])
    /\ coordPc' = "returned"
    /\ UNCHANGED <<scoreVars, upperVars, cacheVars, extractVars, input, loopRunning, workers,
                   tiersTried, apiLog, putRaised>>

NextTier(pc, n) ==
    /\ coordPc' = pc
    /\ tiersTried' = Append(tiersTried, n)
    /\ workers' = FreshWorkers
    /\ UNCHANGED <<scoreVars, upperVars, cacheVars, extractVars, input, loopRunning, coordResult,
                   apiLog, putRaised>>

\* Tier 1: loop.run_until_complete raises at once when the calling thread
\* already runs an event loop ("except Exception": on to tier 2).
Tier1Raise ==
    /\ coordPc = "tier1"
    /\ loopRunning
    /\ NextTier("tier2", 2)

\* A tier 1 whose timeout is handed to the caller as an error result.
Tier1Timeout_ReturnsError ==
    /\ coordPc = "tier1"
    /\ \E k \in Kinds : workers[k].pc = "hung"
    /\ coordResult' = [tag |-> "resume_failed", resume |-> None, job |-> None,
                       details |-> "timeout"]
    /\ coordPc' = "returned"
    /\ UNCHANGED <<scoreVars, upperVars, cacheVars, extractVars, input, loopRunning, workers,
                   tiersTried, apiLog, putRaised>>

\* Tier 1: asyncio.wait_for expires ("except asyncio.TimeoutError").
Tier1Timeout ==
    /\ coordPc = "tier1"
    /\ \E k \in Kinds : workers[k].pc = "hung"
    /\ NextTier("tier2", 2)

\* Tier 1: gather returned; extract_data_concurrent_async builds the result
\* and extract_data_concurrent returns it.
Tier1Return ==
    /\ coordPc = "tier1"
    /\ BothDone
    /\ ReturnResult

\* Tier 2: thread.join(timeout=15) expires; run_async_in_thread raises
\* TimeoutError and leaves its thread behind.
Tier2JoinTimeout(k) ==
    /\ coordPc = "tier2"
    /\ workers[k].pc = "hung"
    /\ workers' = [workers EXCEPT ![k] = [@ EXCEPT !.pc = "timedout"]]
    /\ UNCHANGED <<scoreVars, upperVars, cacheVars, extractVars, coordPc, input, loopRunning,
                   coordResult, tiersTried, apiLog, putRaised>>

\* Tier 2: a future.result raises the TimeoutError ("except Exception").
Tier2FallThrough ==
    /\ coordPc = "tier2"
    /\ \A k \in Kinds : workers[k].pc \in {"done", "timedout"}
    /\ \E k \in Kinds : workers[k].pc = "timedout"
    /\ NextTier("tier3", 3)

\* Tier 2: both futures gave a value.
Tier2Return ==
    /\ coordPc = "tier2"
    /\ BothDone
    /\ ReturnResult

\* Tier 3: both future.result() calls returned.
Tier3Return ==
    /\ coordPc = "tier3"
    /\ BothDone
    /\ ReturnResult

\* The caller takes the result; the coordinator keeps nothing of the call.
ExtractBothTaken ==
    /\ coordPc = "returned"
    /\ coordPc' = "idle"
    /\ input' = NoInput
    /\ loopRunning' = FALSE
    /\ workers' = FreshWorkers
    /\ coordResult' = NoResult
    /\ tiersTried' = <<>>
    /\ apiLog' = {}
    /\ putRaised' = FALSE
    /\ UNCHANGED <<cacheVars, extractVars>>

ExtractBothReturn ==
    /\ ExtractBothTaken
    /\ UNCHANGED <<scoreVars, upperVars>>

NextCoord ==
    \/ StartExtractBoth
    \/ \E k \in Kinds :
          \/ WorkerStart(k)
          \/ WorkerAnswer(k)
          \/ WorkerHang(k)
          \/ WorkerPick(k)
          \/ WorkerDel(k)
          \/ WorkerStore(k)
          \/ Tier2JoinTimeout(k)
    \/ Tier1Raise
    \/ Tier1Timeout
    \/ Tier1Return
    \/ Tier2FallThrough
    \/ Tier2Return
    \/ Tier3Return
    \/ ExtractBothReturn

(***************************************************************************)
(* ANALYZE: analyze_resume_job_match_fast.  asyncio.run starts the         *)
(* cooperative path (analyze_resume_job_match_fast_async); asyncio.run     *)
(* raises only when the calling thread runs an event loop already, and     *)
(* then _analyze_resume_job_match_fast_sync runs: extract_data_concurrent  *)
(* with its tiers, then explain_match_score.  Neither path sets a timeout  *)
(* of its own.  The "breakdown" entry of the returned dict, a second       *)
(* parse of the explanation, is left out.                                  *)
(***************************************************************************)
NumAnalyzeTexts == 1

AnalyzeTexts == 1..NumAnalyzeTexts

\* The texts the scoring call of an analysis may answer with:
\* "**FINAL SCORE: 79/100**", and a text without any score.
AnalyzeScoreTexts == {<<Line("short", 79)>>, <<Line("plain", 0)>>}

NoRecords == [resume |-> None, job |-> None]

NoPrev == [input |-> NoInput, result |-> None]

InitAnalyzeVars ==
    /\ anPc = "idle"
    /\ anPath = "none"
    /\ anInput = NoInput
    /\ anRecords = NoRecords
    /\ anResult = None
    /\ prev = NoPrev

\* A check that never finds the error key.
HasError_Never(extraction) == FALSE

\* "if 'error' in extraction_result:"
HasError(extraction) == extraction.tag # "ok"

\* "return extraction_result": the coordinator's error dict, as it is.
ExtractionErrorDict(extraction) ==
    [error |-> Some(extraction.tag), details |-> extraction.details]

\* The dict built after scoring; "error" is analysis.get("error").
AnalysisDict(records, analysis) ==
    [resume_data          |-> records.resume,
     job_requirements     |-> records.job,
     compatibility_score  |-> analysis.score,
     detailed_explanation |-> analysis.explanation,
     error                |-> IF analysis.error THEN Some("score_failed") ELSE None]

\* Analyze on a thread that runs no event loop: asyncio.run starts
\* analyze_resume_job_match_fast_async, which awaits
\* extract_data_concurrent_async.
AnalyzeCooperative ==
    /\ anPc = "idle"
    /\ coordPc = "idle"
    /\ \E tr \in AnalyzeTexts, tj \in AnalyzeTexts :
          /\ anInput' = [resume |-> tr, job |-> tj]
          /\ input' = [resume |-> tr, job |-> tj]
    /\ anPc' = "extracting"
    /\ anPath' = "coop"
    /\ coordPc' = "coop"
    /\ loopRunning' = FALSE
    /\ tiersTried' = <<>>
    /\ workers' = FreshWorkers
    /\ coordResult' = NoResult
    /\ apiLog' = {}
    /\ putRaised' = FALSE
    /\ UNCHANGED <<anRecords, anResult, prev, scoreVars, cacheVars, extractVars,
                   batchVars>>

\* Analyze on a thread that runs an event loop: asyncio.run raises, and
\* "except Exception" calls _analyze_resume_job_match_fast_sync, which
\* enters extract_data_concurrent.
AnalyzeFallback ==
    /\ anPc = "idle"
    /\ \E tr \in AnalyzeTexts, tj \in AnalyzeTexts :
          /\ anInput' = [resume |-> tr, job |-> tj]
          /\ EnterExtractBoth(tr, tj, TRUE)
    /\ anPc' = "extracting"
    /\ anPath' = "sync"
    /\ UNCHANGED <<anRecords, anResult, prev, scoreVars, batchVars>>

\* extract_data_concurrent_async: gather returned, the result is built.
CoopReturn ==
    /\ coordPc = "coop"
    /\ BothDone
    /\ ReturnResult

\* ExtractBoth has returned to the analysis: an error dict is returned to
\* the caller as it is; otherwise the scoring call is issued.
AnalyzeExtracted ==
    /\ anPc = "extracting"
    /\ ExtractBothTaken
    /\ IF HasError(coordResult)
       THEN /\ anResult' = Some(ExtractionErrorDict(coordResult))
            /\ anPc' = "returned"
            /\ UNCHANGED anRecords
       ELSE /\ anRecords' = [resume |-> coordResult.resume, job |-> coordResult.job]
            /\ anPc' = "scoring"
            /\ UNCHANGED anResult
    /\ UNCHANGED <<anPath, anInput, prev, scoreVars, batchVars>>

\* The scoring call ends (explain_match_score_async on the cooperative
\* path; on the fallback path explain_match_score, whose asyncio.run raises
\* as well, so _explain_match_score_sync), and the result dict is built.
AnalyzeScored ==
    /\ anPc = "scoring"
    /\ ScoreCall(IF anPath = "coop" THEN "async" ELSE "sync", AnalyzeScoreTexts)
    /\ anResult' = Some(AnalysisDict(anRecords, scoreResult'))
    /\ anPc' = "returned"
    /\ UNCHANGED <<anPath, anInput, anRecords, prev, cacheVars, extractVars,
                   coordVars, batchVars>>

\* The scoring call is never answered; nothing bounds the wait.
AnalyzeScoreHang ==
    /\ anPc = "scoring"
    /\ anPc' = "score_hung"
    /\ UNCHANGED <<anPath, anInput, anRecords, anResult, prev, scoreVars, cacheVars,
                   extractVars, coordVars, batchVars>>

\* The caller takes the result.
AnalyzeReturn ==
    /\ anPc = "returned"
    /\ prev' = [input |-> anInput, result |-> anResult]
    /\ anPc' = "idle"
    /\ anPath' = "none"
    /\ anInput' = NoInput
    /\ anRecords' = NoRecords
    /\ anResult' = None
    /\ IF scorePc = "returned" THEN ScoreTaken ELSE UNCHANGED scoreVars
    /\ UNCHANGED <<cacheVars, extractVars, coordVars, batchVars>>

\* Under Analyze the coordinator's tier 1 never runs to an end: the fallback
\* path is taken only on a thread whose event loop is running.
NextAnalyze ==
    \/ AnalyzeCooperative
    \/ AnalyzeFallback
    \/ \E k \in Kinds :
          \/ WorkerStart(k)
          \/ WorkerAnswer(k)
          \/ WorkerHang(k)
          \/ WorkerPick(k)
          \/ WorkerDel(k)
          \/ WorkerStore(k)
          \/ Tier2JoinTimeout(k)
    \/ Tier1Raise
    \/ Tier2FallThrough
    \/ Tier2Return
    \/ Tier3Return
    \/ CoopReturn
    \/ AnalyzeExtracted
    \/ AnalyzeScored
    \/ AnalyzeScoreHang
    \/ AnalyzeReturn

(***************************************************************************)
(* ANALYZEMANY: analyze_multiple_resumes.  asyncio.run starts              *)
(* analyze_multiple_resumes_async, which gathers one                       *)
(* analyze_resume_job_match_fast_async per pair; when asyncio.run raises   *)
(* (the calling thread runs an event loop) a thread pool runs one          *)
(* _analyze_resume_job_match_fast_sync per pair and the results are        *)
(* appended as the futures complete.                                       *)
(* The analyses of the pairs interleave.  An extraction is two steps: its   *)
(* cache check, which on a miss issues the generation call, and the        *)
(* handling of the answer (json.loads, _cache_set, return); nothing holds   *)
(* the other analyses back between the two.  Within one analysis the       *)
(* resume extraction is taken before the job extraction, and _cache_set is *)
(* one step (the interleavings inside one ExtractBoth are those of         *)
(* SpecCoord).  The scoring call is one step.                              *)
(***************************************************************************)
MaxPairs == 2

PairOf(tr, tj) == [resume |-> tr, job |-> tj]

AllPairs == {PairOf(tr, tj) : tr \in ExtractTexts, tj \in ExtractTexts}

\* The lists of at most MaxPairs pairs, the empty list included.
Batches == UNION {[1..n -> AllPairs] : n \in 0..MaxPairs}

FreshPair == [pc |-> "resume", resume |-> None, job |-> None, scored |-> "none",
              result |-> None]

InitBatchVars ==
    /\ batchPc = "idle"
    /\ batch = <<>>
    /\ pairs = <<>>
    /\ results = <<>>
    /\ origin = <<>>

\* A collection that leaves error results out.
CollectResult_DropErrors(rs, r) == IF r.error # None THEN rs ELSE Append(rs, r)

\* "results.append(result)"
CollectResult(rs, r) == Append(rs, r)

\* analyze_multiple_resumes on a thread that runs no event loop: one
\* coroutine per pair is created and gathered.
AnalyzeManyCooperative ==
    /\ batchPc = "idle"
    /\ \E b \in Batches :
          /\ batch' = b
          /\ pairs' = [i \in 1..Len(b) |-> FreshPair]
    /\ batchPc' = "coop"
    /\ results' = <<>>
    /\ origin' = <<>>
    /\ UNCHANGED <<scoreVars, cacheVars, extractVars, coordVars, analyzeVars>>

\* analyze_multiple_resumes on a thread that runs an event loop: asyncio.run
\* raises and the except branch builds ThreadPoolExecutor(max_workers=
\* min(4, len(resumes_and_jobs))), which raises ValueError for an empty
\* list; otherwise one task per pair is submitted.
AnalyzeManyFallback ==
    /\ batchPc = "idle"
    /\ \E b \in Batches :
          /\ batch' = b
          /\ pairs' = [i \in 1..Len(b) |-> FreshPair]
          /\ batchPc' = IF Len(b) = 0 THEN "raised" ELSE "threads"
    /\ results' = <<>>
    /\ origin' = <<>>
    /\ UNCHANGED <<scoreVars, cacheVars, extractVars, coordVars, analyzeVars>>

BatchRunning == batchPc \in {"coop", "threads"}

\* The analysis of pair p ends with dict d; under the thread pool
\* as_completed hands it over at once and it is appended.
PairEnds(p, d, scored) ==
    /\ pairs' = [pairs EXCEPT ![p] = [@ EXCEPT !.pc = "done", !.scored = scored,
                                               !.result = Some(d)]]
    /\ IF batchPc = "threads"
       THEN /\ results' = CollectResult(results, d)
            /\ origin' = Append(origin, p)
       ELSE UNCHANGED <<results, origin>>

\* The resume extraction of pair p up to its generation call: "cached_result
\* = self._cache_get(cache_key); if cached_result: return cached_result",
\* and on a miss the call is issued and awaited.
PairResumeCheck(p) ==
    /\ BatchRunning
    /\ p \in 1..Len(batch)
    /\ pairs[p].pc = "resume"
    /\ pairs' = [pairs EXCEPT ![p] =
          IF Truthy(CacheGet(cache, CacheKey("resume", batch[p].resume)))
          THEN [@ EXCEPT !.pc = "job", !.resume =
                   Some(ExtractOk(CacheGet(cache, CacheKey("resume", batch[p].resume))[1]))]
          ELSE [@ EXCEPT !.pc = "resume_call"]]
    /\ UNCHANGED <<scoreVars, cacheVars, extractVars, coordVars, analyzeVars, batchPc,
                   batch, results, origin>>

\* The generation call of the resume extraction of pair p ends: json.loads,
\* _cache_set on success, and the record or the error dict is returned.
PairResumeAnswer(p) ==
    /\ BatchRunning
    /\ p \in 1..Len(batch)
    /\ pairs[p].pc = "resume_call"
    /\ \E outcome \in ApiOutcomes("resume", batch[p].resume) :
          /\ pairs' = [pairs EXCEPT ![p] =
                [@ EXCEPT !.pc = "job", !.resume = Some(ResultOf(outcome))]]
          /\ IF outcome.o = "json"
             THEN /\ cache' = CacheSet(cache, CacheKey("resume", batch[p].resume),
                                       outcome.val[1])
                  /\ evicted' = EvictedBy(cache)
             ELSE UNCHANGED cacheVars
    /\ UNCHANGED <<scoreVars, extractVars, coordVars, analyzeVars, batchPc, batch,
                   results, origin>>

\* The job extraction of pair p has returned j, and both results are
\* checked: on an error the analysis ends with the error dict, otherwise it
\* goes on to the scoring call.
PairExtracted(p, j) ==
    LET ext == CombineResults(pairs[p].resume[1], j)
    IN  IF HasError(ext)
        THEN PairEnds(p, ExtractionErrorDict(ext), "none")
        ELSE /\ pairs' = [pairs EXCEPT ![p] =
                             [@ EXCEPT !.pc = "scoring", !.job = Some(j)]]
             /\ UNCHANGED <<results, origin>>

\* The job extraction of pair p up to its generation call.
PairJobCheck(p) ==
    /\ BatchRunning
    /\ p \in 1..Len(batch)
    /\ pairs[p].pc = "job"
    /\ IF Truthy(CacheGet(cache, CacheKey("job", batch[p].job)))
       THEN PairExtracted(p, ExtractOk(CacheGet(cache, CacheKey("job", batch[p].job))[1]))
       ELSE /\ pairs' = [pairs EXCEPT ![p] = [@ EXCEPT !.pc = "job_call"]]
            /\ UNCHANGED <<results, origin>>
    /\ UNCHANGED <<scoreVars, cacheVars, extractVars, coordVars, analyzeVars, batchPc,
                   batch>>

\* The generation call of the job extraction of pair p ends.
PairJobAnswer(p) ==
    /\ BatchRunning
    /\ p \in 1..Len(batch)
    /\ pairs[p].pc = "job_call"
    /\ \E outcome \in ApiOutcomes("job", batch[p].job) :
          /\ PairExtracted(p, ResultOf(outcome))
          /\ IF outcome.o = "json"
             THEN /\ cache' = CacheSet(cache, CacheKey("job", batch[p].job),
                                       outcome.val[1])
                  /\ evicted' = EvictedBy(cache)
             ELSE UNCHANGED cacheVars
    /\ UNCHANGED <<scoreVars, extractVars, coordVars, analyzeVars, batchPc, batch>>

\* The scoring call of pair p ends and its result dict is built.
PairScore(p) ==
    /\ BatchRunning
    /\ p \in 1..Len(batch)
    /\ pairs[p].pc = "scoring"
    /\ LET records == [resume |-> pairs[p].resume[1].val, job |-> pairs[p].job[1].val]
       IN  \/ \E text \in AnalyzeScoreTexts :
                 PairEnds(p, AnalysisDict(records, ScoreOk(text)), "answered")
           \/ PairEnds(p, AnalysisDict(records, ScoreFailed), "failed")
    /\ UNCHANGED <<scoreVars, cacheVars, extractVars, coordVars, analyzeVars, batchPc,
                   batch>>

\* A generation call of pair p is never answered: the cooperative path has
\* no timeout and the fallback path none in its last tier.
PairHang(p) ==
    /\ BatchRunning
    /\ p \in 1..Len(batch)
    /\ pairs[p].pc \in {"resume_call", "job_call", "scoring"}
    /\ pairs' = [pairs EXCEPT ![p] = [@ EXCEPT !.pc = "hung"]]
    /\ UNCHANGED <<scoreVars, cacheVars, extractVars, coordVars, analyzeVars, batchPc,
                   batch, results, origin>>

AllPairsDone == \A p \in 1..Len(batch) : pairs[p].pc = "done"

\* asyncio.gather with return_exceptions=True returns the results in the
\* order of the tasks.
BatchGatherReturn ==
    /\ batchPc = "coop"
    /\ AllPairsDone
    /\ results' = [i \in 1..Len(batch) |-> pairs[i].result[1]]
    /\ origin' = [i \in 1..Len(batch) |-> i]
    /\ batchPc' = "returned"
    /\ UNCHANGED <<scoreVars, cacheVars, extractVars, coordVars, analyzeVars, batch,
                   pairs>>

\* The as_completed loop has seen every future.
BatchThreadsReturn ==
    /\ batchPc = "threads"
    /\ AllPairsDone
    /\ batchPc' = "returned"
    /\ UNCHANGED <<scoreVars, cacheVars, extractVars, coordVars, analyzeVars, batch,
                   pairs, results, origin>>

\* The caller has the list, or the exception.
BatchTaken ==
    /\ batchPc \in {"returned", "raised"}
    /\ batchPc' = "idle"
    /\ batch' = <<>>
    /\ pairs' = <<>>
    /\ results' = <<>>
    /\ origin' = <<>>
    /\ UNCHANGED <<scoreVars, cacheVars, extractVars, coordVars, analyzeVars>>

NextBatch ==
    \/ AnalyzeManyCooperative
    \/ AnalyzeManyFallback
    \/ \E p \in 1..MaxPairs :
          \/ PairResumeCheck(p)
          \/ PairResumeAnswer(p)
          \/ PairJobCheck(p)
          \/ PairJobAnswer(p)
          \/ PairScore(p)
          \/ PairHang(p)
    \/ BatchGatherReturn
    \/ BatchThreadsReturn
    \/ BatchTaken

Init ==
    /\ InitScoreVars
    /\ InitCacheVars
    /\ InitExtractVars
    /\ InitCoordVars
    /\ InitAnalyzeVars
    /\ InitBatchVars

SpecAnalyze == Init /\ [][NextAnalyze]_vars

SpecBatch == Init /\ [][NextBatch]_vars

SpecCoord == Init /\ [][NextCoord]_vars

Next == ExtractResumeData \/ ExtractJobRequirements

Spec == Init /\ [][Next]_vars

InitScore == Init

SpecScore == InitScore /\ [][NextScore]_vars


(***************************************************************************)
(* CLAIMS ABOUT THE SCORE RECOVERER (checked under SpecScore)              *)
(***************************************************************************)
ScoreAnswered == scorePc = "returned" /\ scoreCall = "answered"

\* C1: whichever recovery strategy fired, the score returned for a completed
\* generation call lies in the inclusive range [15,95].
C1_ScoreInRange ==
    ScoreAnswered => scoreResult.score \in 15..95

\* A completed call whose recovered value (120) had to be clamped down.
C1_Witness ==
    /\ ScoreAnswered
    /\ ExtractScoreFromResponse(content) > 95
    /\ scoreResult.score = 95

\* C2 (as claimed): every ScoreResult, also that of a failed generation call,
\* has its score in [15,95].
C2_AlwaysClamped ==
    scorePc = "returned" => scoreResult.score \in 15..95

\* C2 (amended): a ScoreResult of a completed call has its score in [15,95]
\* and no error marker, also when nothing in the text could be parsed; the
\* ScoreResult of a failed generation call has score 0 and an error marker.
C2_ClampedOrFailed ==
    scorePc = "returned" =>
        /\ scoreCall = "answered" =>
               scoreResult.score \in 15..95 /\ ~scoreResult.error
        /\ scoreCall = "failed" =>
               scoreResult.score = 0 /\ scoreResult.error

\* A returned result of a generation call that failed.
C2_Witness ==
    /\ scorePc = "returned"
    /\ scoreCall = "failed"
    /\ scoreResult.error

\* The canonical markers "FINAL ... SCORE: N/100" of a text: the full marker,
\* the short one of the spec's scenario, and the marker closed by an equation.
CanonicalMarkers(text) ==
    {i \in 1..Len(text) : text[i].k \in {"marker", "short", "markereq"}}

ClampTo15_95(n) == IF n < 15 THEN 15 ELSE IF n > 95 THEN 95 ELSE n

\* C3: for every score text that contains a canonical marker
\* "FINAL ... SCORE: N/100" (all its markers stating the same N), whatever
\* surrounds it, Score recovers exactly N clamped to [15,95].
C3_MarkerRecovered ==
    (ScoreAnswered /\ CanonicalMarkers(content) # {}
       /\ \A i, j \in CanonicalMarkers(content) : content[i].n = content[j].n)
    => \A i \in CanonicalMarkers(content) :
          scoreResult.score = ClampTo15_95(content[i].n)

\* The scenario text: "**CALCULATION:** Base 100, Skills -14, Experience -10,
\* Education 0, Bonus +3" followed by "**FINAL SCORE: 79/100**".
C4_Text == <<Line("calc", 0), Line("plain", 0), Line("short", 79)>>

\* C4: for the scenario text the recovered score is 79.
C4_ScenarioIs79 ==
    (ScoreAnswered /\ content = C4_Text) => scoreResult.score = 79

\* No pattern of methods 1 to 4 applies: no "=", no marker, no "N/100", no
\* "Score:" and no "**CALCULATION:**" header anywhere in the text.
NoRecognizablePattern(text) ==
    \A i \in 1..Len(text) :
        text[i].k \in {"plain", "skills", "experience", "education", "bonus"}

\* C5: for every score text in which no recovery pattern matches, Score
\* returns the fixed neutral default 50 and raises no exception (the result
\* carries no error marker).
C5_DefaultOnNoPattern ==
    (ScoreAnswered /\ NoRecognizablePattern(content))
    => (scoreResult.score = 50 /\ ~scoreResult.error)

\* A completed call on a non-empty text none of whose lines matches.
C5_Witness ==
    /\ ScoreAnswered
    /\ Len(content) = MaxLines
    /\ NoRecognizablePattern(content)
    /\ scoreResult.score = 50

\* C21: whenever the scoring generation call completes, the explanation
\* Score returns is the full response text, unchanged, whichever strategy
\* produced the score (the default included).
C21_ExplanationIsFullText ==
    ScoreAnswered => scoreResult.explanation = content

\* A completed call on a text of full length in which only the default
\* applied, returned with that text as its explanation.
C21_Witness ==
    /\ ScoreAnswered
    /\ Len(content) = MaxLines
    /\ MethodUsed(content) = 5
    /\ \E i \in 1..Len(content) : content[i].k # "plain"
    /\ scoreResult.explanation = content
    /\ scoreResult.explanation # <<>>

\* What strategy k alone yields on a text (None: it fails): 1 the
\* arithmetic-closure patterns, 2 the marker patterns, 3 the breakdown
\* section, 4 the last bare "N/100", 5 the default.
Strategy(k, text) ==
    CASE k = 1 -> FirstSearch(calc_patterns, text)
      [] k = 2 -> FirstSearch(simple_patterns, text)
      [] k = 3 -> ExtractFromCalculationSection(text)
      [] k = 4 -> FirstFindallLast(fallback_patterns, text)
      [] OTHER -> Some(default_score)

\* C23: the strategies are applied in the order 1 to 5 and recovery stops at
\* the first success: the score returned is the (clamped) value of the
\* first strategy that succeeds on the text, so the value of strategy k is
\* returned only if strategies 1..k-1 all failed.
C23_FirstSuccessWins ==
    ScoreAnswered =>
        \A k \in 1..5 :
            (/\ \A j \in 1..(k - 1) : Strategy(j, content) = None
             /\ Strategy(k, content) # None)
            => scoreResult.score = ClampTo15_95(Strategy(k, content)[1])

\* A completed call on a text where strategies 1 and 2 fail and strategies 3
\* and 4 would give different scores: the score is that of strategy 3.
C23_Witness ==
    /\ ScoreAnswered
    /\ Strategy(1, content) = None
    /\ Strategy(2, content) = None
    /\ Strategy(3, content) # None
    /\ Strategy(4, content) # None
    /\ ClampTo15_95(Strategy(3, content)[1]) # ClampTo15_95(Strategy(4, content)[1])
    /\ scoreResult.score = ClampTo15_95(Strategy(3, content)[1])

\* Some deduction or bonus line of the breakdown section parses.
SectionParses(text) ==
    \E i \in 1..Len(CalcSection(text)) :
        CalcSection(text)[i].k \in {"skills", "experience", "education", "bonus"}

\* C24: when a breakdown section is present but none of its labeled lines
\* parses, strategy 3 fails and recovery proceeds to strategy 4 (and to the
\* default if that fails too).
C24_UnparsedSectionFallsThrough ==
    (/\ ScoreAnswered
     /\ Strategy(1, content) = None
     /\ Strategy(2, content) = None
     /\ CalcHeaders(content) # {}
     /\ ~SectionParses(content))
    => scoreResult.score =
          ClampTo15_95(IF Strategy(4, content) # None THEN Strategy(4, content)[1]
                                                      ELSE default_score)

\* The lines of a text with a bare "N/100" occurrence.
BareOccurrences(text) == MatchingLines("fallback1", text)

\* C25: when strategies 1 to 3 fail and the text contains several bare
\* "N/100" occurrences, the score is the (clamped) value of the last
\* occurrence in the text.
C25_LastBareOccurrence ==
    (/\ ScoreAnswered
     /\ \A j \in 1..3 : Strategy(j, content) = None
     /\ Cardinality(BareOccurrences(content)) >= 2)
    => scoreResult.score = ClampTo15_95(content[MaxOf(BareOccurrences(content))].n)

\* A completed call on a text whose first and last bare occurrences state
\* different values, returned with the last one.
C25_Witness ==
    /\ ScoreAnswered
    /\ \A j \in 1..3 : Strategy(j, content) = None
    /\ Cardinality(BareOccurrences(content)) >= 2
    /\ content[MinOf(BareOccurrences(content))].n
          # content[MaxOf(BareOccurrences(content))].n
    /\ scoreResult.score = content[MaxOf(BareOccurrences(content))].n

(***************************************************************************)
(* CLAIMS ABOUT EXTRACT AND THE CACHE (checked under Spec)                 *)
(***************************************************************************)
\* C6: two consecutive Extract calls with identical kind and text issue one
\* generation call in total: when the first call was a miss that the service
\* answered with well-formed JSON, the second call issues no call and
\* returns the same record.
C6_SecondCallCached ==
    [][(/\ callSeq' # callSeq
        /\ last.issued = 1
        /\ last.result.tag = "ok"
        /\ last'.kind = last.kind
        /\ last'.text = last.text)
       => (last'.issued = 0 /\ last'.result = last.result)]_vars

\* C7: for Puts of distinct keys the entry count never exceeds the capacity,
\* and a Put of a new key into a full cache evicts exactly the
\* earliest-inserted entry, keeps all the others in order, adds the new
\* entry and leaves the count at the capacity.
C7_FifoEviction ==
    [][/\ Len(cache') <= CacheSizeLimit
       /\ (/\ Len(cache) = CacheSizeLimit
           /\ cache' # cache
           /\ cache'[Len(cache')].key \notin CacheKeys(cache))
          => (/\ cache' = Append(Tail(cache), cache'[Len(cache')])
              /\ evicted' = Some(cache[1].key)
              /\ Len(cache') = CacheSizeLimit)]_vars

\* A full cache whose latest Put evicted an entry to admit a new key.
C7_Witness ==
    /\ Len(cache) = CacheSizeLimit
    /\ last.issued = 1
    /\ last.result.tag = "ok"
    /\ evicted # None
    /\ evicted[1] \notin CacheKeys(cache)
    /\ cache[Len(cache)].key = CacheKey(last.kind, last.text)

\* C22: eviction is LRU-style: the entry that the previous Extract call was
\* served from by a cache hit is not the entry the next eviction removes.
C22_HitEntryNotEvictedNext ==
    [][(/\ last.kind # "none"
        /\ last.issued = 0
        /\ cache' # cache
        /\ evicted' # None)
       => evicted'[1] # CacheKey(last.kind, last.text)]_vars

\* C28: the cache is populated only by an Extract call whose response
\* parsed, and by the time that call has returned its key holds the parsed
\* value; a call whose generation call failed or whose response did not
\* parse leaves the cache contents and their order unchanged.
C28_CacheOnlyAfterParse ==
    [][callSeq' # callSeq =>
          /\ (last'.issued = 1 /\ last'.result.tag = "ok")
             => CacheGet(cache', CacheKey(last'.kind, last'.text)) = last'.result.val
          /\ last'.result.tag \in {"parse_error", "api_error"} => cache' = cache
          /\ cache' # cache => (last'.issued = 1 /\ last'.result.tag = "ok")]_vars

\* A call on a full cache that did not hold its key, whose response failed
\* to parse, returned with the cache still full and still without that key.
C28_Witness ==
    /\ last.issued = 1
    /\ last.result.tag = "parse_error"
    /\ Len(cache) = CacheSizeLimit
    /\ CacheKey(last.kind, last.text) \notin CacheKeys(cache)

\* C30: a Put whose key is already present only replaces that key's value:
\* every key present before is present after and the entry count is not
\* lowered, also when the cache is at capacity.
C30_PutOfPresentKeyKeepsOthers ==
    [][(/\ cache' # cache
        /\ last'.issued = 1
        /\ last'.result.tag = "ok"
        /\ CacheKey(last'.kind, last'.text) \in CacheKeys(cache))
       => (/\ CacheKeys(cache) \subseteq CacheKeys(cache')
           /\ Len(cache') >= Len(cache))]_vars

(***************************************************************************)
(* CLAIMS ABOUT EXTRACTBOTH (checked under SpecCoord)                      *)
(***************************************************************************)
\* C8: in every interleaving of the cache steps of the resume-path and
\* job-path workers running on separate threads, the entry count never
\* exceeds the capacity and no Put fails.
C8_CacheIntactUnderThreads ==
    /\ Len(cache) <= CacheSizeLimit
    /\ ~putRaised

\* C9: when every generation call of an ExtractBoth call fails with a
\* ServiceError, the call returns only after tiers 1, 2 and 3 have all been
\* attempted, and what it returns is an error.
C9_UnreachableExhaustsTiers ==
    (coordPc = "returned" /\ apiLog = {"fail"})
    => (tiersTried = <<1, 2, 3>> /\ coordResult.tag # "ok")

\* C10: ExtractBoth always terminates: an ExtractBoth call that has not
\* returned can always take a further step, also when a generation call is
\* never answered (every tier ends by a timeout of its own).
C10_NeverStuck ==
    coordPc = "idle" \/ ENABLED NextCoord

\* Some extraction of the running tier has ended with the "Failed to parse"
\* dict (an ExtractionError).
ParseErrorYielded ==
    /\ Running
    /\ \E k \in Kinds : workers[k].result = Some(ParseError)

\* C12 (as claimed): once an extraction of the running tier has yielded an
\* ExtractionError, ExtractBoth goes on to no later tier: its next move is to
\* return.
C12_ParseErrorReturnsAtOnce ==
    [][ParseErrorYielded => coordPc' \in {coordPc, "returned"}]_vars

\* The extraction whose failure the returned error names: the resume
\* extraction if it failed, otherwise the job extraction.
FirstFailed ==
    IF workers["resume"].result[1].tag # "ok" THEN "resume" ELSE "job"

\* C12 (amended): once both extractions of the running tier have ended and
\* one of them yielded an ExtractionError, ExtractBoth returns from that
\* tier, attempting no later tier, and what it returns is an error that
\* carries the error dict of the first failed extraction (resume before job).
C12_ParseErrorEndsLadder ==
    [][(ParseErrorYielded /\ BothDone)
       => \/ UNCHANGED coordVars
          \/ /\ coordPc' = "returned"
             /\ tiersTried' = tiersTried
             /\ coordResult'.tag = IF FirstFailed = "resume" THEN "resume_failed"
                                                           ELSE "job_failed"
             /\ coordResult'.details = workers[FirstFailed].result[1].tag]_vars

\* ExtractBoth has returned from tier 2 with the job extraction's
\* ExtractionError, the resume extraction having succeeded.
C12_Witness ==
    /\ coordPc = "returned"
    /\ tiersTried = <<1, 2>>
    /\ workers["resume"].result[1].tag = "ok"
    /\ workers["job"].result = Some(ParseError)
    /\ coordResult.tag = "job_failed"
    /\ coordResult.details = "parse_error"

\* C18: the failure marker of an extraction matches its cause in every
\* interleaving of the two extraction paths: an extraction ends with the
\* ServiceError marker ("API call failed") only if its generation call
\* failed, never while it holds the parsed answer of a call that was
\* answered with well-formed text.
C18_MarkerMatchesCause ==
    [][\A k \in Kinds :
          (workers'[k].result = Some(ApiError) /\ workers[k].result = None)
          => workers[k].val = None]_vars

\* Some extraction of the running tier was not answered before the tier's
\* timeout.
TierTimedOut == \E k \in Kinds : workers[k].pc \in {"hung", "timedout"}

\* C26: within one ExtractBoth call the tiers are attempted in the order
\* 1, 2, 3, each at most once; a tier is started only from the tier before
\* it, after that tier timed out or raised; and ExtractBoth never returns
\* from a tier that timed out: what it returns is built from two ended
\* extractions.
C26_TiersInOrder ==
    [][/\ tiersTried' \in {<<>>, <<1>>, <<1, 2>>, <<1, 2, 3>>}
       /\ (tiersTried' # tiersTried /\ Len(tiersTried') > 1)
          => /\ tiersTried' = Append(tiersTried, Len(tiersTried) + 1)
             /\ coordPc = IF Len(tiersTried) = 1 THEN "tier1" ELSE "tier2"
             /\ TierTimedOut \/ (coordPc = "tier1" /\ loopRunning)
       /\ (coordPc' = "returned" /\ coordPc # "returned")
          => /\ ~TierTimedOut
             /\ tiersTried' = tiersTried
             /\ coordResult'.details \in {"none", "parse_error", "api_error"}]_vars

\* ExtractBoth has returned a success from tier 3, tiers 1 and 2 having been
\* left behind.
C26_Witness ==
    /\ coordPc = "returned"
    /\ tiersTried = <<1, 2, 3>>
    /\ coordResult.tag = "ok"

\* C27: whatever the order in which the two extractions end, ExtractBoth
\* has returned only when both extractions of the tier it returned from
\* have ended, and a success carries the resume record and the job record
\* of its two texts, both extractions having ended without an error marker.
C27_ReturnsAfterBoth ==
    coordPc = "returned" =>
        /\ BothDone
        /\ coordResult.tag = "ok" =>
              /\ \A k \in Kinds : workers[k].result[1].tag = "ok"
              /\ coordResult.resume # None
              /\ coordResult.job # None
              /\ coordResult.resume = workers["resume"].result[1].val
              /\ coordResult.job = workers["job"].result[1].val
              /\ coordResult.resume[1].kind = "resume"
              /\ coordResult.resume[1].text = input["resume"]
              /\ coordResult.job[1].kind = "job"
              /\ coordResult.job[1].text = input["job"]

\* ExtractBoth has returned a success from tier 2 with both records.
C27_Witness ==
    /\ coordPc = "returned"
    /\ tiersTried = <<1, 2>>
    /\ coordResult.tag = "ok"
    /\ coordResult.resume # None
    /\ coordResult.job # None

(***************************************************************************)
(* CLAIMS ABOUT ANALYZE (checked under SpecAnalyze)                        *)
(***************************************************************************)
\* C11: Analyze always terminates: an Analyze call that has not returned can
\* always take a further step, on the cooperative path and on the fallback
\* path, also when a generation call is never answered.
C11_AnalyzeNeverStuck ==
    anPc = "idle" \/ ENABLED NextAnalyze

\* The keys of a complete AnalysisResult.
CompleteKeys ==
    {"resume_data", "job_requirements", "compatibility_score",
     "detailed_explanation", "error"}

\* C15: every result Analyze returns is structurally complete: it carries
\* the resume record, the job record, the score, the explanation and the
\* error field, also when the extraction failed.
C15_ResultComplete ==
    anPc = "returned" => DOMAIN anResult[1] = CompleteKeys

HasScore(r) == r # None /\ "compatibility_score" \in DOMAIN r[1]

\* C17: an Analyze call whose texts are those of the call before it yields
\* the same score as that call.
C17_SameInputsSameScore ==
    (/\ anPc = "returned"
     /\ prev.input = anInput
     /\ HasScore(prev.result)
     /\ HasScore(anResult))
    => anResult[1].compatibility_score = prev.result[1].compatibility_score

\* C19: the scoring call of an analysis is issued only after ExtractBoth has
\* returned both records; when ExtractBoth returns an error, the analysis
\* returns with that error (the coordinator's error and its details) as
\* its result, and no scoring call is made.
C19_ScoreOnlyAfterExtraction ==
    [][/\ (scorePc = "idle" /\ scorePc' = "returned")
          => /\ anPc = "scoring"
             /\ anRecords.resume # None
             /\ anRecords.job # None
       /\ (anPc = "extracting" /\ anPc' # "extracting")
          => IF coordResult.tag = "ok"
             THEN /\ anPc' = "scoring"
                  /\ anRecords' = [resume |-> coordResult.resume,
                                   job |-> coordResult.job]
                  /\ scorePc' = "idle"
             ELSE /\ anPc' = "returned"
                  /\ anResult' = Some([error   |-> Some(coordResult.tag),
                                       details |-> coordResult.details])
                  /\ scorePc' = "idle"]_vars

\* An analysis on the fallback path that returned a score, its scoring call
\* made on the two records ExtractBoth returned.
C19_Witness ==
    /\ anPc = "returned"
    /\ anPath = "sync"
    /\ scorePc = "returned"
    /\ scoreCall = "answered"
    /\ anRecords.resume # None
    /\ anRecords.job # None
    /\ HasScore(anResult)
    /\ anResult[1].compatibility_score = 79

\* C20: whenever the cooperative path fails, the fallback path runs before
\* a result is returned: a result that carries a failure is never the
\* cooperative path's own.
C20_FallbackAfterFailure ==
    (anPc = "returned" /\ anResult[1].error # None) => anPath = "sync"

(***************************************************************************)
(* CLAIMS ABOUT ANALYZEMANY (checked under SpecBatch)                      *)
(***************************************************************************)
\* The pairs whose ExtractBoth gave an error.
ExtractionFailedPairs ==
    {p \in 1..Len(batch) : pairs[p].pc = "done" /\ pairs[p].scored = "none"}

\* The pairs whose scoring call failed.
ScoreFailedPairs ==
    {p \in 1..Len(batch) : pairs[p].scored = "failed"}

\* The positions of the returned list whose dict has an error set.
ErrorResults == {i \in 1..Len(results) : results[i].error # None}

\* A normal result: both records, the score and the explanation, no error.
NormalResult(d) ==
    /\ DOMAIN d = {"resume_data", "job_requirements", "compatibility_score",
                   "detailed_explanation", "error"}
    /\ d.error = None

\* C13: AnalyzeMany over N pairs returns exactly N results under the
\* cooperative and under the thread-fallback strategy; when the extraction
\* of exactly one pair fails (and no scoring call does), exactly one result
\* carries an error and the other N-1 are normal results.
C13_OneResultPerPair ==
    batchPc = "returned" =>
        /\ Len(results) = Len(batch)
        /\ (Cardinality(ExtractionFailedPairs) = 1 /\ ScoreFailedPairs = {})
           => /\ Cardinality(ErrorResults) = 1
              /\ \A i \in 1..Len(results) :
                    i \notin ErrorResults => NormalResult(results[i])

\* A batch of MaxPairs pairs returned by the thread fallback, the extraction
\* of exactly one pair having failed.
C13_Witness ==
    /\ batchPc = "returned"
    /\ Len(batch) = MaxPairs
    /\ Len(origin) = MaxPairs
    /\ origin[1] # 1
    /\ Cardinality(ExtractionFailedPairs) = 1
    /\ ScoreFailedPairs = {}
    /\ Cardinality(ErrorResults) = 1

\* C14: every result AnalyzeMany returns can be attributed to the pair it
\* was computed for, under both strategies and whatever the completion
\* order.  The dicts name no pair, so the position in the returned list is
\* the only tag there is: the result at position i belongs to pair i.
C14_ResultsAttributable ==
    batchPc = "returned" =>
        \A i \in 1..Len(results) : origin[i] = i

\* C16: no public operation lets an exception escape to its caller, for
\* every failure of the Generation Client or of a scheduler and for every
\* input, the empty batch included.
C16_NoExceptionEscapes ==
    batchPc # "raised"

\* Two analyses of the batch are both waiting for the answer to a
\* generation call they issued for the same kind and the same text.
DuplicateCallInFlight ==
    \E p, q \in 1..Len(batch) :
        /\ p # q
        /\ \/ /\ pairs[p].pc = "resume_call"
              /\ pairs[q].pc = "resume_call"
              /\ batch[p].resume = batch[q].resume
           \/ /\ pairs[p].pc = "job_call"
              /\ pairs[q].pc = "job_call"
              /\ batch[p].job = batch[q].job

\* C29: when two pairs of one batch share a resume text or a job text, at
\* most one generation call is issued for that kind and text: no second
\* extraction misses the cache while the call of the first is in flight.
C29_OneCallPerSharedText ==
    BatchRunning => ~DuplicateCallInFlight

=============================================================================
